---- MODULE Spec2Model ----
(***************************************************************************)
(* Model of export.py (Podcasts Export): the export loop over the          *)
(* downloaded episodes, the TTML -> .txt and TTML -> .srt conversions and  *)
(* format_time.  Python strings are TLA+ strings; a character is a string  *)
(* of length one, and the regular-expression rewrites of the source are    *)
(* computed character by character.                                        *)
(***************************************************************************)
EXTENDS Integers, Sequences, FiniteSets, TLC

VARIABLES
    episodes,      \* the argument of export: the rows to export
    idx,           \* position of the for loop of export (rows taken so far)
    pc,            \* position inside export / inside the checked function
    files,         \* files[e]: the transcript files written for row e
    open_handles,  \* file objects opened and not yet closed
    file_ttml,     \* the local names bound by open(), "unbound" before
    file_txt,
    file_srt,
    pending,       \* the exception raised inside the current try block
    error,         \* the exception that leaves export ("none" while running)
    str_ttml,      \* export's local str_ttml
    tmp_str,       \* export's local tmp_str
    lines,         \* export's local lines
    li,            \* position of the for loop over lines
    i,             \* export's local i, the caption index
    out_str,       \* export's local out_str
    time_str,      \* the argument of format_time
    formatted,     \* format_time(time_str)
    reparsed       \* format_time(format_time(time_str))

exportVars == <<episodes, idx, pc, files, open_handles, file_ttml, file_txt,
                file_srt, pending, error, str_ttml, tmp_str, lines, li, i, out_str>>
timeVars == <<time_str, formatted, reparsed>>
vars == <<exportVars, timeVars>>

(***************************************************************************)
(* Python string primitives.                                               *)
(***************************************************************************)
Ch(s, k) == IF 1 <= k /\ k <= Len(s) THEN SubSeq(s, k, k) ELSE ""

StartsAt(s, k, lit) ==
    /\ k >= 1
    /\ k + Len(lit) - 1 <= Len(s)
    /\ SubSeq(s, k, k + Len(lit) - 1) = lit

Min(S) == CHOOSE x \in S : \A y \in S : x <= y
Max(S) == CHOOSE x \in S : \A y \in S : y <= x

\* index of the first occurrence of lit in s at or after k, 0 when there is none
Find(s, k, lit) ==
    LET hits == {j \in k..Len(s) : StartsAt(s, j, lit)}
    IN  IF hits = {} THEN 0 ELSE Min(hits)

RECURSIVE SplitFrom(_, _, _)
SplitFrom(s, k, sep) ==
    LET j == Find(s, k, sep)
    IN  IF j = 0 THEN <<SubSeq(s, k, Len(s))>>
        ELSE <<SubSeq(s, k, j - 1)>> \o SplitFrom(s, j + Len(sep), sep)

\* str.split(sep)
Split(s, sep) == SplitFrom(s, 1, sep)

Digits == {"0", "1", "2", "3", "4", "5", "6", "7", "8", "9"}
Whitespace == {" ", "\t", "\n", "\r", "\f"}

\* parts[-n] of a Python list: IndexError when the list is shorter than n
NegIndex(parts, n) ==
    IF n <= Len(parts) THEN [err |-> "none", val |-> parts[Len(parts) - n + 1]]
    ELSE [err |-> "IndexError", val |-> ""]

(***************************************************************************)
(* format_time                                                             *)
(***************************************************************************)
\* format_time without the len(parts) guards of lines 52 and 53
format_time_unguarded(s) ==
    LET parts == Split(s, ":")
        ss == NegIndex(parts, 1)
        mm == NegIndex(parts, 2)
        hh == NegIndex(parts, 3)
    IN  IF ss.err # "none" THEN ss
        ELSE IF mm.err # "none" THEN mm
        ELSE IF hh.err # "none" THEN hh
        ELSE [err |-> "none", val |-> hh.val \o ":" \o mm.val \o ":" \o ss.val]

format_time(s) ==
    LET parts == Split(s, ":")
        ss == NegIndex(parts, 1)
        mm == IF Len(parts) > 1 THEN NegIndex(parts, 2)
              ELSE [err |-> "none", val |-> "00"]
        hh == IF Len(parts) > 2 THEN NegIndex(parts, 3)
              ELSE [err |-> "none", val |-> "00"]
    IN  IF ss.err # "none" THEN ss
        ELSE IF mm.err # "none" THEN mm
        ELSE IF hh.err # "none" THEN hh
        ELSE [err |-> "none", val |-> hh.val \o ":" \o mm.val \o ":" \o ss.val]

(***************************************************************************)
(* Regular expressions of export, as re.sub applies them: Match(re, s, k)  *)
(* is the match of pattern re that starts at position k of s (what re      *)
(* finds when its scan stands at k), with the text that replaces it.       *)
(***************************************************************************)
NoMatch == [ok |-> FALSE, end |-> 0, repl |-> ""]
Matched(e, r) == [ok |-> TRUE, end |-> e, repl |-> r]

\* first position at or after k whose character is in C, 0 when there is none
FirstOf(s, k, C) ==
    LET hits == {j \in k..Len(s) : Ch(s, j) \in C}
    IN  IF hits = {} THEN 0 ELSE Min(hits)

\* first position at or after k whose character is not in C (Len(s) + 1 at the end)
FirstNotOf(s, k, C) ==
    LET hits == {j \in k..Len(s) : Ch(s, j) \notin C}
    IN  IF hits = {} THEN Len(s) + 1 ELSE Min(hits)

\* a literal pattern
Literal(s, k, lit, repl) ==
    IF StartsAt(s, k, lit) THEN Matched(k + Len(lit) - 1, repl) ELSE NoMatch

\* r'<span[^>]*>' -> ''
SpanOpenAt(s, k) ==
    IF ~StartsAt(s, k, "<span") THEN NoMatch
    ELSE LET q == FirstOf(s, k + 5, {">"})
         IN  IF q = 0 THEN NoMatch ELSE Matched(q, "")

\* r'<p .*(SPEAK[^"]+)">' -> r'\n\1\n'   ('.' does not match a newline)
SpeakerAt(s, k) ==
    IF ~StartsAt(s, k, "<p ") THEN NoMatch
    ELSE LET nl == FirstOf(s, k + 3, {"\n"})
             lim == IF nl = 0 THEN Len(s) ELSE nl
             quote(p) == FirstOf(s, p + 5, {"\""})
             good == {p \in (k + 3)..lim :
                        /\ StartsAt(s, p, "SPEAK")
                        /\ quote(p) > p + 5
                        /\ Ch(s, quote(p) + 1) = ">"}
         IN  IF good = {} THEN NoMatch
             ELSE LET p == Max(good)
                  IN  Matched(quote(p) + 1, "\n" \o SubSeq(s, p, quote(p) - 1) \o "\n")

\* r'<[^>]+>' -> ''
TagAt(s, k) ==
    IF Ch(s, k) # "<" \/ Ch(s, k + 1) \in {"", ">"} THEN NoMatch
    ELSE LET q == FirstOf(s, k + 2, {">"})
         IN  IF q = 0 THEN NoMatch ELSE Matched(q, "")

\* r'<span[^>]+word">([^<]+)</span>' -> r'\1 '
WordAt(s, k) ==
    IF ~StartsAt(s, k, "<span") THEN NoMatch
    ELSE LET q == FirstOf(s, k + 5, {">"})
             e == FirstOf(s, q + 1, {"<"})
         IN  IF q = 0 \/ q < k + 11 \/ ~StartsAt(s, q - 5, "word\"") THEN NoMatch
             ELSE IF e = 0 \/ e = q + 1 \/ ~StartsAt(s, e, "</span>") THEN NoMatch
             ELSE Matched(e + 6, SubSeq(s, q + 1, e - 1) \o " ")

\* r'<(head|/head|metadata|p|/p|tt|/tt|body|/body|div|/div)[^>]*>' -> ''
Wrappers == <<"head", "/head", "metadata", "p", "/p", "tt", "/tt",
              "body", "/body", "div", "/div">>

WrapperAt(s, k) ==
    IF Ch(s, k) # "<" THEN NoMatch
    ELSE LET ends == {FirstOf(s, k + 1 + Len(Wrappers[a]), {">"}) :
                        a \in {b \in DOMAIN Wrappers : StartsAt(s, k + 1, Wrappers[b])}}
         IN  IF ends \subseteq {0} THEN NoMatch
             ELSE LET a == Min({b \in DOMAIN Wrappers :
                                  /\ StartsAt(s, k + 1, Wrappers[b])
                                  /\ FirstOf(s, k + 1 + Len(Wrappers[b]), {">"}) # 0})
                  IN  Matched(FirstOf(s, k + 1 + Len(Wrappers[a]), {">"}), "")

\* r'<span begin="([\d:]+).(\d{3})" end="([\d:]+).(\d{3})" podcasts:unit="sentence">([^<]+)</span>'
\*   -> r'\1||\2||\3||\4||\5'
\* TimeAt(s, a, lit): the ways '([\d:]+).(\d{3})' followed by lit matches at a:
\* the lengths n of the first group
TimeAt(s, a, lit) ==
    {n \in 1..(FirstNotOf(s, a, Digits \cup {":"}) - a) :
        /\ Ch(s, a + n) \notin {"", "\n"}
        /\ \A d \in 1..3 : Ch(s, a + n + d) \in Digits
        /\ StartsAt(s, a + n + 4, lit)}

SentenceEnd(s, c) ==
    IF FirstOf(s, c, {"<"}) \in {0, c} \/ ~StartsAt(s, FirstOf(s, c, {"<"}), "</span>")
    THEN 0
    ELSE FirstOf(s, c, {"<"}) + 6

BeginLit == "<span begin=\""
EndLit == "\" end=\""
UnitLit == "\" podcasts:unit=\"sentence\">"

\* where the end time starts when the begin time starts at a and has n characters,
\* and where the text starts when the end time starts at b and has m characters
EndTimeAt(a, n) == a + n + 4 + Len(EndLit)
TextAt(b, m) == b + m + 4 + Len(UnitLit)

\* the ways the pattern matches with its begin time at a: the lengths <<n, m>> of
\* the two '[\d:]+' groups
SentenceGroups(s, a) ==
    UNION {{<<n, m>> : m \in {x \in TimeAt(s, EndTimeAt(a, n), UnitLit) :
                                SentenceEnd(s, TextAt(EndTimeAt(a, n), x)) # 0}} :
           n \in TimeAt(s, a, EndLit)}

\* the match with groups of lengths n and m: its end and r'\1||\2||\3||\4||\5'
SentenceFields(s, a, n, b, m, c) ==
    Matched(SentenceEnd(s, c),
        SubSeq(s, a, a + n - 1) \o "||" \o SubSeq(s, a + n + 1, a + n + 3) \o "||"
        \o SubSeq(s, b, b + m - 1) \o "||" \o SubSeq(s, b + m + 1, b + m + 3) \o "||"
        \o SubSeq(s, c, SentenceEnd(s, c) - 7))

\* the greedy choice among the ways to match: the longest first group, then the
\* longest second group
Greedy(good) ==
    CHOOSE x \in good : \A y \in good : y[1] < x[1] \/ (y[1] = x[1] /\ y[2] <= x[2])

SentenceGreedy(s, a, good) ==
    IF good = {} THEN NoMatch
    ELSE SentenceFields(s, a, Greedy(good)[1], EndTimeAt(a, Greedy(good)[1]), Greedy(good)[2],
                        TextAt(EndTimeAt(a, Greedy(good)[1]), Greedy(good)[2]))

SentenceAt(s, k) ==
    IF ~StartsAt(s, k, BeginLit) THEN NoMatch
    ELSE SentenceGreedy(s, k + Len(BeginLit), SentenceGroups(s, k + Len(BeginLit)))

Match(re, s, k) ==
    CASE re = "p_close"    -> Literal(s, k, "</p>", "\n")
      [] re = "span_open"  -> SpanOpenAt(s, k)
      [] re = "span_close" -> Literal(s, k, "</span>", " ")
      [] re = "speaker"    -> SpeakerAt(s, k)
      [] re = "tag"        -> TagAt(s, k)
      [] re = "word"       -> WordAt(s, k)
      [] re = "span_break" -> Literal(s, k, "</span>", "</span>\n")
      [] re = "wrapper"    -> WrapperAt(s, k)
      [] re = "sentence"   -> SentenceAt(s, k)

\* re.sub(re, repl, s): the leftmost non-overlapping matches are replaced.  Every
\* pattern begins with '<', so the scan tries the positions of '<' (starts) in turn
RECURSIVE SubFrom(_, _, _, _)
SubFrom(re, s, k, starts) ==
    LET rest == {j \in starts : j >= k}
    IN  IF rest = {} THEN SubSeq(s, k, Len(s))
        ELSE LET j == Min(rest)
                 m == Match(re, s, j)
             IN  IF m.ok THEN SubSeq(s, k, j - 1) \o m.repl \o SubFrom(re, s, m.end + 1, rest)
                 ELSE SubSeq(s, k, j) \o SubFrom(re, s, j + 1, rest)

ReSub(re, s) == SubFrom(re, s, 1, {j \in 1..Len(s) : Ch(s, j) = "<"})

\* re.sub(r'^$', '', s): without re.MULTILINE '^' is the start of the string and
\* '$' its end (or the place before a final newline); the empty match becomes ''
SubEmpty(s) == IF s \in {"", "\n"} THEN "" \o s ELSE s

\* re.sub(r'^\s*$', '', s): a string of whitespace only becomes '', any other
\* string is left as it is (no re.MULTILINE)
SubBlank(s) == IF \A k \in 1..Len(s) : Ch(s, k) \in Whitespace THEN "" ELSE s

(***************************************************************************)
(* The two passes of export over str_ttml.                                 *)
(***************************************************************************)
\* line 136 with count=1: only the first tag is removed
StripTags_first(s) ==
    IF {j \in 1..Len(s) : TagAt(s, j).ok} = {} THEN s
    ELSE SubSeq(s, 1, Min({j \in 1..Len(s) : TagAt(s, j).ok}) - 1)
         \o SubSeq(s, TagAt(s, Min({j \in 1..Len(s) : TagAt(s, j).ok})).end + 1, Len(s))

\* line 136
StripTags(s) == ReSub("tag", s)

TextPass(s) ==
    StripTags(ReSub("speaker", ReSub("span_close", ReSub("span_open", ReSub("p_close", s)))))

CaptionPass(s) ==
    SubBlank(ReSub("wrapper", ReSub("span_break", ReSub("word", SubEmpty(s)))))

(***************************************************************************)
(* One turn of the loop over lines (lines 165-172): the caption block of   *)
(* a line, or the ValueError of the five-name unpacking of split('||').    *)
(***************************************************************************)
Turn(e, n, out, t) == [err |-> e, i |-> n, out |-> out, tmp |-> t]

\* lines 170-172
Caption(block, n, out) == Turn("none", n + 1, out \o block, block)

\* lines 168-170, with the values format_time returned
Block(n, begin, begin_ms, end, end_ms, sentense) ==
    ToString(n) \o "\n" \o begin \o "," \o begin_ms \o " --> " \o end \o "," \o end_ms
    \o "\n" \o sentense \o "\n\n"

Formatted(begin, begin_ms, end, end_ms, sentense, n, out) ==
    IF begin.err # "none" THEN Turn(begin.err, n, out, "")
    ELSE IF end.err # "none" THEN Turn(end.err, n, out, "")
    ELSE Caption(Block(n, begin.val, begin_ms, end.val, end_ms, sentense), n, out)

\* line 167: the unpacking into five names, a ValueError unless split gave five
Unpack(fields, n, out) ==
    IF Len(fields) # 5 THEN Turn("ValueError", n, out, "")
    ELSE Formatted(format_time(fields[1]), fields[2], format_time(fields[3]), fields[4],
                   fields[5], n, out)

\* the loop over lines with 'i = i + 1' one level out: every line advances i
CaptionStep_countall(line, n, out) ==
    IF Len(line) > 3 THEN Unpack(Split(ReSub("sentence", line), "||"), n, out)
    ELSE Turn("none", n + 1, out, "")

CaptionStep(line, n, out) ==
    IF Len(line) > 3 THEN Unpack(Split(ReSub("sentence", line), "||"), n, out)
    ELSE Turn("none", n, out, "")

(***************************************************************************)
(* Inputs.                                                                 *)
(***************************************************************************)
MaxEpisodes == 2
MaxParts == 3
MaxFrags == 3
MaxTimeLen == 5

Sentence1 == "<span begin=\"1:02.500\" end=\"1:05.250\" podcasts:unit=\"sentence\">Hello world</span>"
Sentence2 == "<span begin=\"5.120\" end=\"6.000\" podcasts:unit=\"sentence\">Hi</span>"
Words == "<span begin=\"7.000\" end=\"8.000\" podcasts:unit=\"sentence\">"
         \o "<span begin=\"7.000\" podcasts:unit=\"word\">Bye</span></span>"

\* transcripts of the rows of a batch
Docs == {
    "<tt><body><p begin=\"5.120\" podcasts:speaker=\"SPEAKER_1\">"
        \o Sentence2 \o "\n--\n" \o Words \o "</p></body></tt>",
    Sentence1 \o "\n    \n" \o Sentence2,
    "a||b||c||d||e\n<span begin=\"oops\">x</span>" }

\* the media of a row: its extension and whether mutagen finds an MP3 header in it
Rows ==
    {[ext |-> x, header |-> FALSE, ttml |-> ""] : x \in {".movpkg", ".mp4", ".mp3"}}
    \cup {[ext |-> ".mp3", header |-> TRUE, ttml |-> d] : d \in Docs}

RECURSIVE Concat(_)
Concat(ss) == IF ss = <<>> THEN "" ELSE Head(ss) \o Concat(Tail(ss))

StringsOver(S, n) == {Concat(f) : f \in UNION {[1..m -> S] : m \in 0..n}}

\* pieces of caption-pass input
Parts == {Sentence1, Sentence2, Words, "\n", "--", "a||b||c||d||e", "</p>"}

\* pieces of text-pass input
Frags == {"<", ">", "<>", "a", "<tt>", "</p>", "<span x>", "</span>", "<p x=\"SPEAK1\">",
          "\n"}

TimeChars == {"0", "1", "2", "3", "5", ":", "a"}

(***************************************************************************)
(* State of export.                                                        *)
(***************************************************************************)
Absent == [exists |-> FALSE, data |-> ""]
Written(d) == [exists |-> TRUE, data |-> d]
Unbound == [bound |-> FALSE, h |-> <<0, "">>]
Bound(e, kind) == [bound |-> TRUE, h |-> <<e, kind>>]

row == episodes[idx]

Locals ==
    /\ idx = 0
    /\ open_handles = {}
    /\ file_ttml = Unbound
    /\ file_txt = Unbound
    /\ file_srt = Unbound
    /\ pending = "none"
    /\ error = "none"
    /\ str_ttml = ""
    /\ tmp_str = ""
    /\ lines = <<>>
    /\ li = 0
    /\ i = 0
    /\ out_str = ""

TimeIdle ==
    /\ time_str = ""
    /\ formatted = [err |-> "none", val |-> ""]
    /\ reparsed = [err |-> "none", val |-> ""]

Init ==
    /\ \E n \in 0..MaxEpisodes : episodes \in [1..n -> Rows]
    /\ files = [e \in DOMAIN episodes |-> [ttml |-> Absent, txt |-> Absent, srt |-> Absent]]
    /\ pc = "for"
    /\ Locals
    /\ TimeIdle

(***************************************************************************)
(* export: the loop over episodes (lines 66-113).                          *)
(***************************************************************************)
\* line 66: the next row of episodes
NextEpisode ==
    /\ pc = "for"
    /\ idx < Len(episodes)
    /\ idx' = idx + 1
    /\ pc' = "media"
    /\ UNCHANGED <<episodes, files, open_handles, file_ttml, file_txt, file_srt, pending,
                   error, str_ttml, tmp_str, lines, li, i, out_str, timeVars>>

\* line 66: episodes is exhausted, export returns
Return ==
    /\ pc = "for"
    /\ idx = Len(episodes)
    /\ pc' = "done"
    /\ UNCHANGED <<episodes, idx, files, open_handles, file_ttml, file_txt, file_srt,
                   pending, error, str_ttml, tmp_str, lines, li, i, out_str, timeVars>>

\* lines 85-90: a .movpkg is copied as a tree and the loop continues
AfterMedia(r) == IF r.ext = ".movpkg" THEN "for" ELSE "tag"

Media ==
    /\ pc = "media"
    /\ pc' = AfterMedia(row)
    /\ UNCHANGED <<episodes, idx, files, open_handles, file_ttml, file_txt, file_srt,
                   pending, error, str_ttml, tmp_str, lines, li, i, out_str, timeVars>>

\* lines 92-113 with the continue of line 101 left out
AfterTag_fallthrough(r) ==
    IF ~r.header /\ r.ext # ".mp4" THEN "for" ELSE "copy_ttml"

\* lines 92-113: an .mp4 is tagged and the loop continues; so it does when
\* MP3() raises HeaderNotFoundError; else the MP3 tags are saved
AfterTag(r) ==
    IF r.ext = ".mp4" THEN "for"
    ELSE IF ~r.header THEN "for"
    ELSE "copy_ttml"

Tag ==
    /\ pc = "tag"
    /\ pc' = AfterTag(row)
    /\ UNCHANGED <<episodes, idx, files, open_handles, file_ttml, file_txt, file_srt,
                   pending, error, str_ttml, tmp_str, lines, li, i, out_str, timeVars>>

(***************************************************************************)
(* export: the .ttml copy and its read (lines 116-130).                    *)
(***************************************************************************)
\* line 120: shutil.copy(source_ttml, dest_ttml), which raises when it cannot copy
CopyTtml ==
    /\ pc = "copy_ttml"
    /\ \/ /\ files' = [files EXCEPT ![idx].ttml = Written(row.ttml)]
          /\ pc' = "open_ttml"
          /\ error' = error
       \/ /\ error' = "OSError"
          /\ pc' = "raised"
          /\ files' = files
    /\ UNCHANGED <<episodes, idx, open_handles, file_ttml, file_txt, file_srt, pending,
                   str_ttml, tmp_str, lines, li, i, out_str, timeVars>>

\* line 126: file_ttml = open(dest_ttml, 'r')
OpenTtml ==
    /\ pc = "open_ttml"
    /\ \/ /\ file_ttml' = Bound(idx, "ttml")
          /\ open_handles' = open_handles \cup {<<idx, "ttml">>}
          /\ pc' = "read_ttml"
          /\ pending' = "none"
       \/ /\ pending' = "OSError"
          /\ pc' = "finally_ttml"
          /\ UNCHANGED <<file_ttml, open_handles>>
    /\ UNCHANGED <<episodes, idx, files, file_txt, file_srt, error, str_ttml, tmp_str,
                   lines, li, i, out_str, timeVars>>

\* line 127: str_ttml = file_ttml.read()
ReadTtml ==
    /\ pc = "read_ttml"
    /\ \/ /\ str_ttml' = files[idx].ttml.data
          /\ pending' = "none"
       \/ /\ pending' = "UnicodeDecodeError"
          /\ str_ttml' = str_ttml
    /\ pc' = "finally_ttml"
    /\ UNCHANGED <<episodes, idx, files, open_handles, file_ttml, file_txt, file_srt,
                   error, tmp_str, lines, li, i, out_str, timeVars>>

\* a finally clause 'if f: f.close()': reading an unbound f raises
\* UnboundLocalError in place of the exception in flight; close() of a closed
\* file does nothing; then the exception in flight, if any, goes on
FinallyError(f) == IF ~f.bound THEN "UnboundLocalError" ELSE pending
FinallyHandles(f) == IF ~f.bound THEN open_handles ELSE open_handles \ {f.h}

\* lines 128-130
FinallyTtml ==
    /\ pc = "finally_ttml"
    /\ open_handles' = FinallyHandles(file_ttml)
    /\ error' = FinallyError(file_ttml)
    /\ pc' = IF FinallyError(file_ttml) = "none" THEN "sub_p_close" ELSE "raised"
    /\ UNCHANGED <<episodes, idx, files, file_ttml, file_txt, file_srt, pending,
                   str_ttml, tmp_str, lines, li, i, out_str, timeVars>>

(***************************************************************************)
(* export: the text pass and the .txt file (lines 132-143).                *)
(***************************************************************************)
\* line 132
SubPClose ==
    /\ pc = "sub_p_close"
    /\ tmp_str' = ReSub("p_close", str_ttml)
    /\ pc' = "sub_span_open"
    /\ UNCHANGED <<episodes, idx, files, open_handles, file_ttml, file_txt, file_srt,
                   pending, error, str_ttml, lines, li, i, out_str, timeVars>>

\* line 133
SubSpanOpen ==
    /\ pc = "sub_span_open"
    /\ tmp_str' = ReSub("span_open", tmp_str)
    /\ pc' = "sub_span_close"
    /\ UNCHANGED <<episodes, idx, files, open_handles, file_ttml, file_txt, file_srt,
                   pending, error, str_ttml, lines, li, i, out_str, timeVars>>

\* line 134
SubSpanClose ==
    /\ pc = "sub_span_close"
    /\ tmp_str' = ReSub("span_close", tmp_str)
    /\ pc' = "sub_speaker"
    /\ UNCHANGED <<episodes, idx, files, open_handles, file_ttml, file_txt, file_srt,
                   pending, error, str_ttml, lines, li, i, out_str, timeVars>>

\* line 135
SubSpeaker ==
    /\ pc = "sub_speaker"
    /\ tmp_str' = ReSub("speaker", tmp_str)
    /\ pc' = "sub_tags"
    /\ UNCHANGED <<episodes, idx, files, open_handles, file_ttml, file_txt, file_srt,
                   pending, error, str_ttml, lines, li, i, out_str, timeVars>>

\* line 136
SubTags ==
    /\ pc = "sub_tags"
    /\ tmp_str' = StripTags(tmp_str)
    /\ pc' = "open_txt"
    /\ UNCHANGED <<episodes, idx, files, open_handles, file_ttml, file_txt, file_srt,
                   pending, error, str_ttml, lines, li, i, out_str, timeVars>>

\* line 139: file_txt = open(dest_txt, 'w') creates the file, empty
OpenTxt ==
    /\ pc = "open_txt"
    /\ \/ /\ file_txt' = Bound(idx, "txt")
          /\ open_handles' = open_handles \cup {<<idx, "txt">>}
          /\ files' = [files EXCEPT ![idx].txt = Written("")]
          /\ pc' = "write_txt"
          /\ pending' = "none"
       \/ /\ pending' = "OSError"
          /\ pc' = "finally_txt"
          /\ UNCHANGED <<file_txt, open_handles, files>>
    /\ UNCHANGED <<episodes, idx, file_ttml, file_srt, error, str_ttml, tmp_str,
                   lines, li, i, out_str, timeVars>>

\* line 140: file_txt.write(tmp_str)
WriteTxt ==
    /\ pc = "write_txt"
    /\ \/ /\ files' = [files EXCEPT ![idx].txt = Written(tmp_str)]
          /\ pending' = "none"
       \/ /\ pending' = "OSError"
          /\ files' = files
    /\ pc' = "finally_txt"
    /\ UNCHANGED <<episodes, idx, open_handles, file_ttml, file_txt, file_srt, error,
                   str_ttml, tmp_str, lines, li, i, out_str, timeVars>>

\* lines 141-143
FinallyTxt ==
    /\ pc = "finally_txt"
    /\ open_handles' = FinallyHandles(file_txt)
    /\ error' = FinallyError(file_txt)
    /\ pc' = IF FinallyError(file_txt) = "none" THEN "caption_pass" ELSE "raised"
    /\ UNCHANGED <<episodes, idx, files, file_ttml, file_txt, file_srt, pending,
                   str_ttml, tmp_str, lines, li, i, out_str, timeVars>>

(***************************************************************************)
(* export: the caption pass and the .srt file (lines 149-181).             *)
(***************************************************************************)
\* lines 149-163
CaptionPassStep ==
    /\ pc = "caption_pass"
    /\ tmp_str' = CaptionPass(str_ttml)
    /\ lines' = Split(tmp_str', "\n")
    /\ out_str' = ""
    /\ i' = 1
    /\ li' = 1
    /\ pc' = "srt_line"
    /\ UNCHANGED <<episodes, idx, files, open_handles, file_ttml, file_txt, file_srt,
                   pending, error, str_ttml, timeVars>>

\* lines 164-172: one line of lines
ThisTurn == CaptionStep(lines[li], i, out_str)

SrtLine ==
    /\ pc = "srt_line"
    /\ li <= Len(lines)
    /\ LET r == ThisTurn
       IN  /\ error' = r.err
           /\ pc' = IF r.err = "none" THEN "srt_line" ELSE "raised"
           /\ i' = r.i
           /\ out_str' = r.out
           /\ tmp_str' = IF Len(lines[li]) > 3 /\ r.err = "none" THEN r.tmp ELSE tmp_str
           /\ li' = IF r.err = "none" THEN li + 1 ELSE li
    /\ UNCHANGED <<episodes, idx, files, open_handles, file_ttml, file_txt, file_srt,
                   pending, str_ttml, lines, timeVars>>

\* line 164: lines is exhausted
SrtLoopEnd ==
    /\ pc = "srt_line"
    /\ li > Len(lines)
    /\ pc' = "open_srt"
    /\ UNCHANGED <<episodes, idx, files, open_handles, file_ttml, file_txt, file_srt,
                   pending, error, str_ttml, tmp_str, lines, li, i, out_str, timeVars>>

\* line 177: file_srt = open(dest_srt, 'w') creates the file, empty
OpenSrt ==
    /\ pc = "open_srt"
    /\ \/ /\ file_srt' = Bound(idx, "srt")
          /\ open_handles' = open_handles \cup {<<idx, "srt">>}
          /\ files' = [files EXCEPT ![idx].srt = Written("")]
          /\ pc' = "write_srt"
          /\ pending' = "none"
       \/ /\ pending' = "OSError"
          /\ pc' = "finally_srt"
          /\ UNCHANGED <<file_srt, open_handles, files>>
    /\ UNCHANGED <<episodes, idx, file_ttml, file_txt, error, str_ttml, tmp_str,
                   lines, li, i, out_str, timeVars>>

\* line 178: file_srt.write(out_str)
WriteSrt ==
    /\ pc = "write_srt"
    /\ \/ /\ files' = [files EXCEPT ![idx].srt = Written(out_str)]
          /\ pending' = "none"
       \/ /\ pending' = "OSError"
          /\ files' = files
    /\ pc' = "finally_srt"
    /\ UNCHANGED <<episodes, idx, open_handles, file_ttml, file_txt, file_srt, error,
                   str_ttml, tmp_str, lines, li, i, out_str, timeVars>>

\* lines 179-181, the end of the loop body
FinallySrt ==
    /\ pc = "finally_srt"
    /\ open_handles' = FinallyHandles(file_srt)
    /\ error' = FinallyError(file_srt)
    /\ pc' = IF FinallyError(file_srt) = "none" THEN "for" ELSE "raised"
    /\ UNCHANGED <<episodes, idx, files, file_ttml, file_txt, file_srt, pending,
                   str_ttml, tmp_str, lines, li, i, out_str, timeVars>>

Next ==
    \/ NextEpisode \/ Return \/ Media \/ Tag
    \/ CopyTtml \/ OpenTtml \/ ReadTtml \/ FinallyTtml
    \/ SubPClose \/ SubSpanOpen \/ SubSpanClose \/ SubSpeaker \/ SubTags
    \/ OpenTxt \/ WriteTxt \/ FinallyTxt
    \/ CaptionPassStep \/ SrtLine \/ SrtLoopEnd
    \/ OpenSrt \/ WriteSrt \/ FinallySrt

Spec == Init /\ [][Next]_vars

(***************************************************************************)
(* The text pass on its own: export stands before line 132 for a batch of  *)
(* one row whose .ttml copy was read.                                      *)
(***************************************************************************)
AfterRead(d) ==
    /\ episodes = <<[ext |-> ".mp3", header |-> TRUE, ttml |-> d]>>
    /\ idx = 1
    /\ open_handles = {}
    /\ file_ttml = Bound(1, "ttml")
    /\ pending = "none"
    /\ error = "none"
    /\ str_ttml = d
    /\ lines = <<>>
    /\ li = 0
    /\ i = 0
    /\ out_str = ""
    /\ TimeIdle

InitText ==
    \E d \in StringsOver(Frags, MaxFrags) :
        /\ AfterRead(d)
        /\ files = <<[ttml |-> Written(d), txt |-> Absent, srt |-> Absent]>>
        /\ file_txt = Unbound
        /\ file_srt = Unbound
        /\ tmp_str = ""
        /\ pc = "sub_p_close"

NextText == SubPClose \/ SubSpanOpen \/ SubSpanClose \/ SubSpeaker \/ SubTags

SpecText == InitText /\ [][NextText]_vars

(***************************************************************************)
(* The caption pass and the loop over lines on their own: export stands    *)
(* before line 149 for a batch of one row whose .txt was written.          *)
(***************************************************************************)
InitSrt ==
    \E d \in StringsOver(Parts, MaxParts) :
        /\ AfterRead(d)
        /\ tmp_str = TextPass(d)
        /\ files = <<[ttml |-> Written(d), txt |-> Written(tmp_str), srt |-> Absent]>>
        /\ file_txt = Bound(1, "txt")
        /\ file_srt = Unbound
        /\ pc = "caption_pass"

NextSrt == CaptionPassStep \/ SrtLine \/ SrtLoopEnd

SpecSrt == InitSrt /\ [][NextSrt]_vars

(***************************************************************************)
(* format_time on its own.                                                 *)
(***************************************************************************)
InitTime ==
    /\ time_str \in StringsOver(TimeChars, MaxTimeLen)
    /\ formatted = [err |-> "none", val |-> ""]
    /\ reparsed = [err |-> "none", val |-> ""]
    /\ episodes = <<>>
    /\ files = <<>>
    /\ pc = "time_in"
    /\ Locals

\* format_time(time_str)
FormatTime ==
    /\ pc = "time_in"
    /\ formatted' = format_time(time_str)
    /\ pc' = "time_out"
    /\ UNCHANGED <<time_str, reparsed, episodes, idx, files, open_handles, file_ttml,
                   file_txt, file_srt, pending, error, str_ttml, tmp_str, lines, li, i,
                   out_str>>

\* format_time of the string format_time returned
FormatAgain ==
    /\ pc = "time_out"
    /\ formatted.err = "none"
    /\ reparsed' = format_time(formatted.val)
    /\ pc' = "time_again"
    /\ UNCHANGED <<time_str, formatted, episodes, idx, files, open_handles, file_ttml,
                   file_txt, file_srt, pending, error, str_ttml, tmp_str, lines, li, i,
                   out_str>>

NextTime == FormatTime \/ FormatAgain

SpecTime == InitTime /\ [][NextTime]_vars

(***************************************************************************)
(* Properties.                                                             *)
(***************************************************************************)
\* row e went through the MP3 tagging of lines 103-113 to its end
Tagged(e) == episodes[e].ext \notin {".movpkg", ".mp4"} /\ episodes[e].header

TranscriptSteps ==
    {"copy_ttml", "open_ttml", "read_ttml", "finally_ttml", "sub_p_close", "sub_span_open",
     "sub_span_close", "sub_speaker", "sub_tags", "open_txt", "write_txt", "finally_txt",
     "caption_pass", "srt_line", "open_srt", "write_srt", "finally_srt"}

\* the line without its leading and trailing whitespace
Strip(s) ==
    LET keep == {k \in 1..Len(s) : Ch(s, k) \notin Whitespace}
    IN  IF keep = {} THEN "" ELSE SubSeq(s, Min(keep), Max(keep))

\* the line holds a sentence cue: the pattern of line 166 matches somewhere in it
HasCue(line) == \E k \in 1..Len(line) : SentenceAt(line, k).ok

AllDigits(g) == g # "" /\ \A k \in 1..Len(g) : Ch(g, k) \in Digits

\* 1 to 3 colon-separated groups of digits
ValidTime(s) ==
    /\ Len(Split(s, ":")) \in 1..3
    /\ \A k \in 1..Len(Split(s, ":")) : AllDigits(Split(s, ":")[k])

\* HH:MM:SS, two digits each
IsHMS(s) ==
    /\ Len(s) = 8
    /\ \A k \in {1, 2, 4, 5, 7, 8} : Ch(s, k) \in Digits
    /\ \A k \in {3, 6} : Ch(s, k) = ":"

\* C1: when the extraction of one row fails (the ValueError of line 167), every
\* other row that went through tagging has its .txt and its .srt when export ends.
C1_BatchContinues ==
    (pc = "raised" /\ error = "ValueError") =>
        \A e \in DOMAIN episodes \ {idx} :
            Tagged(e) => files[e].txt.exists /\ files[e].srt.exists

\* C2: a line of lines whose stripped length is at most 3 adds nothing to out_str,
\* leaves i as it is and raises nothing.
C2_ShortLinesSkipped ==
    [][(pc = "srt_line" /\ li <= Len(lines) /\ Len(Strip(lines[li])) <= 3)
        => (out_str' = out_str /\ i' = i /\ error' = "none")]_vars

\* C3: a line of lines of 4 characters or more that holds no sentence cue makes
\* export raise, with no .srt written for the row and nothing added to out_str.
C3_MalformedLineFails ==
    [][(pc = "srt_line" /\ li <= Len(lines) /\ Len(lines[li]) >= 4 /\ ~HasCue(lines[li]))
        => (pc' = "raised" /\ error' # "none" /\ out_str' = out_str
            /\ ~files'[idx].srt.exists)]_vars

\* the lines taken so far that are longer than 3, in order
Long == {j \in 1..(li - 1) : Len(lines[j]) > 3}
NthLong(n) == CHOOSE j \in Long : Cardinality({q \in Long : q <= j}) = n
OutLines == Split(out_str, "\n")

\* C4: while the extraction succeeds, out_str is the blocks of the lines that gave
\* a caption, in their order: block n starts with the line "n", carries the text of
\* the n-th such line and ends with an empty line; i is one more than their number;
\* a non-empty out_str ends with an empty line and with no caption out_str is ''.
C4_Blocks ==
    pc \in {"srt_line", "open_srt"} =>
        /\ i = Cardinality(Long) + 1
        /\ Len(OutLines) = 4 * Cardinality(Long) + 1
        /\ \A n \in 1..Cardinality(Long) :
              /\ OutLines[4 * n - 3] = ToString(n)
              /\ OutLines[4 * n - 1] = Split(ReSub("sentence", lines[NthLong(n)]), "||")[5]
              /\ OutLines[4 * n] = ""
        /\ OutLines[Len(OutLines)] = ""
        /\ (Long = {}) = (out_str = "")
        /\ out_str # "" => SubSeq(out_str, Len(out_str) - 1, Len(out_str)) = "\n\n"

\* two captions with a skipped line between them, the loop over lines finished
C4_Witness ==
    /\ pc = "open_srt"
    /\ i = 3
    /\ \E j \in 1..Len(lines) : Len(lines[j]) <= 3 /\ NthLong(1) < j /\ j < NthLong(2)

\* C5: for 1 to 3 groups of digits format_time returns HH:MM:SS, two digits each;
\* format_time("5") is "00:00:05" and format_time("1:2:3") is "01:02:03".
C5_Padded ==
    (pc \in {"time_out", "time_again"} /\ ValidTime(time_str)) =>
        /\ formatted.err = "none"
        /\ IsHMS(formatted.val)
        /\ time_str = "5" => formatted.val = "00:00:05"
        /\ time_str = "1:2:3" => formatted.val = "01:02:03"

\* C6: format_time fails when a group is empty or not made of digits, and when
\* there are more than 3 groups.
C6_Rejects ==
    (pc \in {"time_out", "time_again"} /\ ~ValidTime(time_str)) => formatted.err # "none"

\* C7: for 1 to 3 groups of digits format_time returns a value, and format_time
\* of that value returns the same value.
C7_Idempotent ==
    ValidTime(time_str) =>
        /\ pc \in {"time_out", "time_again"} => formatted.err = "none"
        /\ pc = "time_again" => reparsed = formatted

\* a time of two groups, normalised and normalised again
C7_Witness ==
    /\ pc = "time_again"
    /\ ValidTime(time_str)
    /\ Len(Split(time_str, ":")) = 2
    /\ formatted.val # time_str

\* C8, as stated: the text written to the .txt holds no '<' and no '>'.
C8_NoAngle ==
    pc = "open_txt" => \A k \in 1..Len(tmp_str) : Ch(tmp_str, k) \notin {"<", ">"}

\* C8, amended: the text written to the .txt holds no tag, that is no '<' followed
\* by one or more characters other than '>' and then by '>'.
C8_NoTag ==
    pc = "open_txt" =>
        ~ \E k \in 1..Len(tmp_str) : \E q \in (k + 2)..Len(tmp_str) :
            /\ Ch(tmp_str, k) = "<"
            /\ Ch(tmp_str, q) = ">"
            /\ \A j \in (k + 1)..(q - 1) : Ch(tmp_str, j) # ">"

\* tags were removed and a stray '<' or '>' is left in the text
C8_Witness ==
    /\ pc = "open_txt"
    /\ Len(tmp_str) < Len(str_ttml)
    /\ \E k \in 1..Len(tmp_str) : Ch(tmp_str, k) \in {"<", ">"}
    /\ \E k \in 1..Len(str_ttml) : TagAt(str_ttml, k).ok

\* C9: when export returns or raises no file object is open, and the exception
\* that leaves export is the one raised inside the try block.
C9_Released ==
    pc \in {"done", "raised"} =>
        /\ open_handles = {}
        /\ pending # "none" => error = pending

\* C10: the .ttml copy, the .txt and the .srt are reached only for a row that went
\* through the MP3 tagging; for any other row the loop goes on and none of the three
\* is written; the .txt is never there without the .ttml, nor the .srt without the
\* .txt.
C10_TranscriptAfterTagging ==
    /\ \A e \in DOMAIN episodes :
          /\ (files[e].ttml.exists \/ files[e].txt.exists \/ files[e].srt.exists)
                => Tagged(e)
          /\ files[e].srt.exists => files[e].txt.exists
          /\ files[e].txt.exists => files[e].ttml.exists
    /\ (idx >= 1 /\ ~Tagged(idx) /\ error = "none") => pc \in {"media", "tag", "for", "done"}
    /\ pc \in TranscriptSteps => Tagged(idx)

\* a batch exported to its end with a row that was not tagged before a row that has
\* its three transcript files
C10_Witness ==
    /\ pc = "done"
    /\ \E e1, e2 \in DOMAIN episodes :
          /\ e1 < e2
          /\ ~Tagged(e1)
          /\ Tagged(e2)
          /\ files[e2].srt.exists

====
